---- MODULE Spec2Model ----
(***************************************************************************)
(* Fast-FGSM adversarial training (train_epoch), the PGD evaluation attack *)
(* (attack_pgd, eval_epoch) and the checkpoint loop of run(), from         *)
(* at_fast_fgsm.py.                                                        *)
(*                                                                         *)
(* Tensors are functions over the samples of one mini-batch; every sample  *)
(* carries one pixel.  Pixels, perturbations and budgets live on an        *)
(* integer grid.  Losses are fixed-point numbers in units of 1/1000 nat.   *)
(* The classifier is the external capability "logits = model(input)"; it   *)
(* is modelled as a two-class linear map with logits <<0, w*v + b>>.       *)
(***************************************************************************)
EXTENDS Integers, Sequences, FiniteSets

\* ------------------------------------------------------------------ bounds
MaxRestarts == 2
MaxIters == 2
MaxEpochs == 3

Samples == {1, 2}
EpsValues == {0, 1}
StepValues == {1, 2}
Labels == {0, 1}
\* classifiers: one whose prediction follows the pixel, one that always
\* answers class 0 and saturates (loss 0, gradient 0) on bright pixels
ParamValues == {[w |-> 1, b |-> 0], [w |-> -8, b |-> -8]}

\* utils.clip_min / utils.clip_max: the normalised pixel range
clip_min == -1
clip_max == 1
Pixels == clip_min .. clip_max

Zero == [s \in Samples |-> 0]

\* the mini-batches, up to the order of their samples
Batches ==
    {bt \in [x : [Samples -> Pixels], y : [Samples -> Labels]] :
        \A s, t \in Samples :
            s < t => \/ bt.x[s] < bt.x[t]
                     \/ (bt.x[s] = bt.x[t] /\ bt.y[s] <= bt.y[t])}

VARIABLES
    pc,            \* position of the (single-threaded) program
    params,        \* classifier parameters [w, b]
    paramGrad,     \* contributions accumulated in the parameters' .grad buffers
    x, y,          \* the mini-batch
    eps, eps_iter, \* perturbation budget and step size
    attack_iters, restarts,
    i, it,         \* restart index and iteration index of attack_pgd
    delta,         \* the perturbation being built
    max_loss, max_delta,
    edelta,        \* eval_epoch's delta
    metrics,       \* (loss, accuracy) of the last evaluated batch
    trace,         \* observation log of the current call (history)
    epoch,         \* run(): number of completed training epochs
    optimal_loss,  \* run(): lowest loss that triggered a save
    snapshot,      \* the weight file: the epoch whose parameters it holds, 0 = no file
    epochLoss      \* run(): the mean training loss of every completed epoch (history)

runVars == <<epoch, optimal_loss, snapshot, epochLoss>>
batchVars == <<pc, params, paramGrad, x, y, eps, eps_iter, attack_iters, restarts,
               i, it, delta, max_loss, max_delta, edelta, metrics, trace>>
vars == <<batchVars, runVars>>

\* ------------------------------------------------------------ tensor helpers
Min2(a, b) == IF a <= b THEN a ELSE b
Max2(a, b) == IF a >= b THEN a ELSE b
sign(a) == IF a > 0 THEN 1 ELSE IF a < 0 THEN -1 ELSE 0

\* mutant: the lower limit is dropped
clampUpperOnly(X, lower_limit, upper_limit) ==
    [s \in DOMAIN X |-> Min2(X[s], upper_limit[s])]

\* clamp(X, lower_limit, upper_limit) = max(min(X, upper), lower), elementwise
clamp(X, lower_limit, upper_limit) ==
    [s \in DOMAIN X |-> Max2(Min2(X[s], upper_limit[s]), lower_limit[s])]

\* mutant: the clamp into the ball is dropped
clampSkipped(X, lo, hi) == X

\* Tensor.clamp_(lo, hi) with scalar limits = min(max(X, lo), hi)
clamp_(X, lo, hi) == [s \in DOMAIN X |-> Min2(Max2(X[s], lo), hi)]

\* utils.clip_min - x, utils.clip_max - x
LowerBox(xx) == [s \in DOMAIN xx |-> clip_min - xx[s]]
UpperBox(xx) == [s \in DOMAIN xx |-> clip_max - xx[s]]

Restrict(f, S) == [s \in S |-> f[s]]

\* ---------------------------------------------------------------- classifier
\* logit of class 1 (the logit of class 0 is 0)
Logit(p, v) == p.w * v + p.b
\* logits.argmax(dim=1): the first maximal index
Predict(p, v) == IF Logit(p, v) > 0 THEN 1 ELSE 0
Margin(p, v, label) == IF label = 1 THEN Logit(p, v) ELSE - Logit(p, v)

\* round(1000 * ln(1 + e^-m)) for m >= 0
CeTail(m) ==
    CASE m = 0 -> 693 [] m = 1 -> 313 [] m = 2 -> 127 [] m = 3 -> 49
      [] m = 4 -> 18  [] m = 5 -> 7   [] m = 6 -> 2   [] m = 7 -> 1
      [] OTHER -> 0
\* per-sample cross entropy of a sample with margin m: ln(1 + e^-m)
CrossEntropy(m) == IF m >= 0 THEN CeTail(m) ELSE 1000 * (-m) + CeTail(-m)

\* round(1000 * (1 - softmax probability of the true class)) = 1000/(1+e^m)
ResidualTail(m) ==
    CASE m = 0 -> 500 [] m = 1 -> 269 [] m = 2 -> 119 [] m = 3 -> 47
      [] m = 4 -> 18  [] m = 5 -> 7   [] m = 6 -> 2   [] m = 7 -> 1
      [] OTHER -> 0
Residual(m) == IF m >= 0 THEN ResidualTail(m) ELSE 1000 - ResidualTail(-m)

\* F.cross_entropy(model(x + delta), y, reduction='none')
PerSampleLoss(p, xx, yy, d) ==
    [s \in DOMAIN xx |-> CrossEntropy(Margin(p, xx[s] + d[s], yy[s]))]

\* sign of d(mean cross entropy)/d(delta[s]):
\* dCE/dlogit = -(1-p_y) for label 1, +(1-p_y) for label 0; dlogit/dinput = w
InputGradSign(p, xx, yy, d) ==
    [s \in DOMAIN xx |->
        sign((IF yy[s] = 1 THEN -1 ELSE 1)
             * Residual(Margin(p, xx[s] + d[s], yy[s])) * p.w)]

\* torch.where(logits.argmax(dim=1) == y)
Correct(p, xx, yy, d) == {s \in DOMAIN xx : Predict(p, xx[s] + d[s]) = yy[s]}

RECURSIVE SumOver(_, _)
SumOver(f, S) ==
    IF S = {} THEN 0
    ELSE LET s == CHOOSE t \in S : TRUE IN f[s] + SumOver(f, S \ {s})

\* F.cross_entropy(logits, y) (mean) and (argmax == y).float().mean(), in 1/1000
EvalMetrics(p, xx, yy, d) ==
    [loss |-> SumOver(PerSampleLoss(p, xx, yy, d), DOMAIN xx) \div Cardinality(DOMAIN xx),
     acc  |-> (1000 * Cardinality(Correct(p, xx, yy, d))) \div Cardinality(DOMAIN xx)]

\* ---------------------------------------------------------------- attack_pgd
NoMetrics == [loss |-> 0, acc |-> 0]
NoTrace == [mode |-> "none", delta0 |-> Zero, inits |-> 0, finals |-> <<>>,
            grads |-> 0, index |-> {}, before |-> Zero,
            entry |-> {}, consumed |-> {}]

\* mutant: the loop body runs at least once
LoopHeadAtLeastOnce(k, n) == IF k = 0 \/ k < n THEN "iter" ELSE "final"
\* line 104: for _ in range(attack_iters), k iterations done
LoopHead(k, n) == IF k < n THEN "iter" ELSE "final"
\* mutant: the break leaves the restart loop too
BreakOutOfRestarts == "return"
\* line 109: break leaves the iteration loop only
BreakTarget == "final"
\* line 99: for i in range(restarts), k restarts done
RestartHead(k, n) == IF k < n THEN "restart" ELSE "return"
\* lines 96-97
InitialMaxLoss(yy) == [s \in DOMAIN yy |-> 0]

\* eval_epoch, adversarial=True: attack_pgd is entered (lines 95-97)
AttackPgdCall ==
    /\ pc = "idle"
    /\ \E bt \in Batches, e \in EpsValues, st \in StepValues,
          n \in 0 .. MaxIters, r \in 0 .. MaxRestarts :
          /\ x' = bt.x /\ y' = bt.y /\ eps' = e /\ eps_iter' = st
          /\ attack_iters' = n /\ restarts' = r
          /\ pc' = RestartHead(0, r)
          /\ max_loss' = InitialMaxLoss(bt.y)
    /\ max_delta' = Zero
    /\ i' = 0 /\ it' = 0
    /\ delta' = Zero
    /\ trace' = [NoTrace EXCEPT !.mode = "pgd"]
    /\ edelta' = Zero
    /\ metrics' = NoMetrics
    /\ UNCHANGED <<params, paramGrad, runVars>>

\* lines 100-102: random start, projected into the pixel box
PgdRestartInit ==
    /\ pc = "restart"
    /\ \E u \in [Samples -> (-eps) .. eps] :
          LET d0 == clamp(u, LowerBox(x), UpperBox(x)) IN
          /\ delta' = d0
          /\ trace' = [trace EXCEPT !.delta0 = d0, !.inits = @ + 1,
                                      !.index = {}, !.before = d0]
    /\ it' = 0
    /\ pc' = LoopHead(0, attack_iters)
    /\ UNCHANGED <<runVars, params, paramGrad, x, y, eps, eps_iter, attack_iters, restarts,
                   i, max_loss, max_delta, edelta, metrics>>

\* mutant: a descent step
PgdStepDescent(d, xx, g, index) ==
    clamp(clamp_([s \in index |-> d[s] - eps_iter * g[s]], -eps, eps),
          LowerBox(Restrict(xx, index)), UpperBox(Restrict(xx, index)))

\* lines 115-116 on the selected rows
PgdStep(d, xx, g, index) ==
    clamp(clamp_([s \in index |-> d[s] + eps_iter * g[s]], -eps, eps),
          LowerBox(Restrict(xx, index)), UpperBox(Restrict(xx, index)))

\* mutant: the rows that are not selected are reset
WriteBackReset(d, index, d_) == [s \in DOMAIN d |-> IF s \in index THEN d_[s] ELSE 0]

\* line 119: delta.data[index] = delta_
WriteBack(d, index, d_) == [s \in DOMAIN d |-> IF s \in index THEN d_[s] ELSE d[s]]

\* lines 105-120: one iteration of the inner loop
PgdIter ==
    /\ pc = "iter"
    /\ LET index == Correct(params, x, y, delta) IN
       IF index = {}
       THEN /\ pc' = BreakTarget
            /\ trace' = [trace EXCEPT !.index = {}, !.before = delta]
            /\ UNCHANGED <<delta, it, paramGrad>>
       ELSE /\ delta' = WriteBack(delta, index,
                           PgdStep(delta, x, InputGradSign(params, x, y, delta), index))
            /\ paramGrad' = paramGrad \cup {"pgd"}
            /\ trace' = [trace EXCEPT !.grads = @ + 1, !.index = index,
                                        !.before = delta]
            /\ it' = it + 1
            /\ pc' = LoopHead(it + 1, attack_iters)
    /\ UNCHANGED <<runVars, params, x, y, eps, eps_iter, attack_iters, restarts,
                   i, max_loss, max_delta, edelta, metrics>>

\* mutant: a tie keeps the older restart
WorstSelectStrict(all_loss, ml) == {s \in DOMAIN all_loss : all_loss[s] > ml[s]}
\* line 123
WorstSelect(all_loss, ml) == {s \in DOMAIN all_loss : all_loss[s] >= ml[s]}
\* mutant: the loss of the last restart overwrites the maximum
WorstLossOverwrite(all_loss, ml) == [s \in DOMAIN ml |-> all_loss[s]]
\* line 124
WorstLoss(all_loss, ml) == [s \in DOMAIN ml |-> Max2(ml[s], all_loss[s])]

\* lines 122-124: final loss of the restart and worst-case update
PgdFinal ==
    /\ pc = "final"
    /\ LET all_loss == PerSampleLoss(params, x, y, delta) IN
       /\ max_delta' = WriteBack(max_delta, WorstSelect(all_loss, max_loss), delta)
       /\ max_loss' = WorstLoss(all_loss, max_loss)
       /\ trace' = [trace EXCEPT !.finals =
                        Append(@, [delta |-> delta, loss |-> all_loss,
                                   start |-> trace.delta0, its |-> it])]
    /\ i' = i + 1
    /\ pc' = RestartHead(i + 1, restarts)
    /\ UNCHANGED <<runVars, params, paramGrad, x, y, eps, eps_iter, attack_iters, restarts,
                   it, delta, edelta, metrics>>

\* line 125, back in eval_epoch line 141
PgdReturn ==
    /\ pc = "return"
    /\ edelta' = max_delta
    /\ pc' = "eval"
    /\ UNCHANGED <<runVars, params, paramGrad, x, y, eps, eps_iter, attack_iters, restarts,
                   i, it, delta, max_loss, max_delta, metrics, trace>>

\* lines 145-151
EvalBatch ==
    /\ pc = "eval"
    /\ metrics' = EvalMetrics(params, x, y, edelta)
    /\ pc' = "evaluated"
    /\ UNCHANGED <<runVars, params, paramGrad, x, y, eps, eps_iter, attack_iters, restarts,
                   i, it, delta, max_loss, max_delta, edelta, trace>>

\* the batch's locals go out of scope; only the classifier and its gradient
\* buffers outlive the loop body
Locals ==
    /\ x = Zero /\ y = Zero
    /\ eps = 0 /\ eps_iter = 0 /\ attack_iters = 0 /\ restarts = 0
    /\ i = 0 /\ it = 0
    /\ delta = Zero /\ max_loss = Zero /\ max_delta = Zero /\ edelta = Zero
    /\ metrics = NoMetrics
    /\ trace = NoTrace

ResetLocals ==
    /\ x' = Zero /\ y' = Zero
    /\ eps' = 0 /\ eps_iter' = 0 /\ attack_iters' = 0 /\ restarts' = 0
    /\ i' = 0 /\ it' = 0
    /\ delta' = Zero /\ max_loss' = Zero /\ max_delta' = Zero /\ edelta' = Zero
    /\ metrics' = NoMetrics
    /\ trace' = NoTrace

\* line 138: the loop of eval_epoch moves on to the next batch
EvalNext ==
    /\ pc = "evaluated"
    /\ pc' = "idle"
    /\ ResetLocals
    /\ UNCHANGED <<params, paramGrad, runVars>>

\* eval_epoch, adversarial=False (line 143): delta = 0.
CleanCall ==
    /\ pc = "idle"
    /\ \E bt \in Batches : x' = bt.x /\ y' = bt.y
    /\ edelta' = Zero
    /\ trace' = [NoTrace EXCEPT !.mode = "clean"]
    /\ pc' = "eval"
    /\ UNCHANGED <<runVars, params, paramGrad, eps, eps_iter, attack_iters, restarts,
                   i, it, delta, max_loss, max_delta, metrics>>

\* --------------------------------------------------------------- train_epoch
\* lines 48-53: next batch, uniform start, projected into the pixel box
TrainBatch ==
    /\ pc = "idle"
    /\ \E bt \in Batches, e \in EpsValues, st \in StepValues :
          /\ x' = bt.x /\ y' = bt.y /\ eps' = e /\ eps_iter' = st
          /\ \E u \in [Samples -> (-e) .. e] :
                LET d0 == clamp(u, LowerBox(bt.x), UpperBox(bt.x)) IN
                /\ delta' = d0
                /\ trace' = [NoTrace EXCEPT !.mode = "train", !.delta0 = d0, !.inits = 1,
                                        !.before = d0, !.entry = paramGrad]
    /\ pc' = "zero_grad"
    /\ UNCHANGED <<runVars, params, paramGrad, attack_iters, restarts,
                   i, it, max_loss, max_delta, edelta, metrics>>

\* mutant: the buffers are not cleared
KeptGrad(g) == g
\* line 55: optimizer.zero_grad()
ZeroedGrad(g) == {}
ZeroGrad ==
    /\ pc = "zero_grad"
    /\ paramGrad' = ZeroedGrad(paramGrad)
    /\ pc' = "fgsm"
    /\ UNCHANGED <<runVars, params, x, y, eps, eps_iter, attack_iters, restarts,
                   i, it, delta, max_loss, max_delta, edelta, metrics, trace>>

\* line 59: torch.autograd.grad(loss, delta) returns the gradient and leaves
\* every .grad buffer as it was
AfterInputQuery(g) == g

\* lines 62-63
FgsmUpdate(d, xx, g) ==
    clamp(clamp_([s \in DOMAIN d |-> d[s] + g[s] * eps_iter], -eps, eps),
          LowerBox(xx), UpperBox(xx))

\* lines 57-63: first forward pass, input gradient, single signed step
FgsmStep ==
    /\ pc = "fgsm"
    /\ delta' = FgsmUpdate(delta, x, InputGradSign(params, x, y, delta))
    /\ paramGrad' = AfterInputQuery(paramGrad)
    /\ trace' = [trace EXCEPT !.grads = @ + 1]
    /\ pc' = "forward"
    /\ UNCHANGED <<runVars, params, x, y, eps, eps_iter, attack_iters, restarts,
                   i, it, max_loss, max_delta, edelta, metrics>>

\* lines 66-67 (and the accuracy of line 77, taken from the same logits)
RealForward ==
    /\ pc = "forward"
    /\ metrics' = EvalMetrics(params, x, y, delta)
    /\ pc' = "backward"
    /\ UNCHANGED <<runVars, params, paramGrad, x, y, eps, eps_iter, attack_iters,
                   restarts, i, it, delta, max_loss, max_delta, edelta, trace>>

\* line 69: scaler.scale(loss).backward() accumulates into the .grad buffers
Backward ==
    /\ pc = "backward"
    /\ paramGrad' = paramGrad \cup {"loss2"}
    /\ pc' = "step"
    /\ UNCHANGED <<runVars, params, x, y, eps, eps_iter, attack_iters, restarts,
                   i, it, delta, max_loss, max_delta, edelta, metrics, trace>>

\* lines 70-74: scaler.step(optimizer) consumes the .grad buffers; the update
\* is skipped when a gradient is not finite.  The new parameter values are
\* the optimizer's business: any classifier may result.
OptStep ==
    /\ pc = "step"
    /\ trace' = [trace EXCEPT !.consumed = paramGrad]
    /\ \E skipped \in BOOLEAN :
          IF skipped THEN params' = params ELSE params' \in ParamValues
    /\ pc' = "trained"
    /\ UNCHANGED <<runVars, paramGrad, x, y, eps, eps_iter, attack_iters, restarts,
                   i, it, delta, max_loss, max_delta, edelta, metrics>>

\* what is left in the buffers belongs, from now on, to an earlier batch
Aged(g) == {IF t = "loss2" THEN "earlier" ELSE t : t \in g}

\* lines 76-78 and back to line 48
TrainNext ==
    /\ pc = "trained"
    /\ paramGrad' = Aged(paramGrad)
    /\ pc' = "idle"
    /\ ResetLocals
    /\ UNCHANGED <<params, runVars>>

\* ----------------------------------------------------------------------- run
InitialOptimalLoss == 100000
\* mean training losses an epoch may report, around the initial optimal_loss
LossValues == {1, 2, 99999, 100000, 100001}

\* line 208
Improves(loss, best) == loss < best

\* lines 203-210: one epoch of training, then the checkpoint decision
RunEpoch ==
    /\ epoch < MaxEpochs
    /\ epoch' = epoch + 1
    /\ \E loss \in LossValues :
          /\ epochLoss' = Append(epochLoss, loss)
          /\ IF Improves(loss, optimal_loss)
             THEN optimal_loss' = loss /\ snapshot' = epoch + 1
             ELSE UNCHANGED <<optimal_loss, snapshot>>
    /\ UNCHANGED batchVars

InitRun ==
    /\ epoch = 0
    /\ optimal_loss = InitialOptimalLoss
    /\ snapshot = 0
    /\ epochLoss = <<>>

Init ==
    /\ pc = "idle"
    /\ params \in ParamValues
    /\ paramGrad = {}
    /\ Locals
    /\ InitRun

Next ==
    \/ AttackPgdCall
    \/ PgdRestartInit
    \/ PgdIter
    \/ PgdFinal
    \/ PgdReturn
    \/ EvalBatch
    \/ EvalNext
    \/ CleanCall
    \/ TrainBatch
    \/ ZeroGrad
    \/ FgsmStep
    \/ RealForward
    \/ Backward
    \/ OptStep
    \/ TrainNext

Spec == Init /\ [][Next]_vars

NextRun == RunEpoch
SpecRun == Init /\ [][NextRun]_vars
\* ================================================================== claims
InAttack == trace.mode \in {"train", "pgd"}
Returned == trace.mode = "pgd" /\ pc \in {"return", "eval", "evaluated"}
Finals == trace.finals

\* elementwise -eps <= d <= eps and clip_min <= x + d <= clip_max
InBox(d) ==
    \A s \in Samples :
        /\ -eps <= d[s] /\ d[s] <= eps
        /\ clip_min <= x[s] + d[s] /\ x[s] + d[s] <= clip_max

\* C1: in train_epoch and in attack_pgd, after every projection (after the
\* random start and after every gradient-sign update) every element of delta
\* lies in [-eps, eps] and x + delta lies in [clip_min, clip_max]; so does the
\* max_delta that attack_pgd returns.
C1_BoxInvariant ==
    InAttack => /\ InBox(delta)
                /\ InBox(max_delta)
                /\ \A k \in 1 .. Len(Finals) : InBox(Finals[k].delta)
                /\ (Returned => InBox(edelta))

\* a returned perturbation that sits on the ball for one sample and on the
\* pixel box (strictly inside the ball) for the other, after gradient steps
C1_Witness ==
    /\ Returned /\ pc = "eval"
    /\ trace.grads >= 2
    /\ eps = 1 /\ eps_iter = 2
    /\ \E s, t \in Samples :
          /\ x[s] = 0 /\ edelta[s] \in {-1, 1}
          /\ x[t] # 0 /\ edelta[t] = 0 /\ trace.delta0[t] # 0

\* restart k is the latest of the restarts with the highest final loss for s
IsLatestWorst(F, s, k) ==
    /\ k \in 1 .. Len(F)
    /\ \A j \in 1 .. Len(F) : F[j].loss[s] <= F[k].loss[s]
    /\ \A j \in (k + 1) .. Len(F) : F[j].loss[s] < F[k].loss[s]

\* C2: after every restart of attack_pgd (so also on return), max_delta[s] is
\* the end-of-restart delta[s] of the latest restart whose final loss for s is
\* the highest of all restarts so far, and max_loss[s] is that restart's loss.
C2_WorstCaseSelection ==
    (trace.mode = "pgd" /\ Len(Finals) >= 1) =>
        \A s \in Samples :
            \E k \in 1 .. Len(Finals) :
                /\ IsLatestWorst(Finals, s, k)
                /\ max_delta[s] = Finals[k].delta[s]
                /\ max_loss[s] = Finals[k].loss[s]

\* two restarts tie on one sample with different perturbations, and the
\* first restart wins strictly on the other sample
C2_Witness ==
    /\ Returned /\ Len(Finals) = 2
    /\ \E s, t \in Samples :
          /\ Finals[1].loss[s] = Finals[2].loss[s]
          /\ Finals[1].delta[s] # Finals[2].delta[s]
          /\ max_delta[s] = Finals[2].delta[s]
          /\ Finals[1].loss[t] > Finals[2].loss[t]
          /\ Finals[1].delta[t] # Finals[2].delta[t]

\* C4: with attack_iters = 0 and restarts = 1, attack_pgd computes no gradient,
\* never updates delta, and returns the projected random start of that restart.
C4_ZeroIterations ==
    (Returned /\ attack_iters = 0 /\ restarts = 1) =>
        /\ trace.grads = 0
        /\ trace.inits = 1
        /\ Len(Finals) = 1
        /\ Finals[1].delta = trace.delta0
        /\ max_delta = trace.delta0

\* a nonzero random start whose final loss is exactly 0 on a sample
C4_Witness ==
    /\ Returned /\ attack_iters = 0 /\ restarts = 1 /\ Len(Finals) = 1
    /\ \E s \in Samples :
          /\ trace.delta0[s] # 0
          /\ Finals[1].loss[s] = 0
          /\ max_delta[s] = trace.delta0[s]

\* C5: with eps = 0 both attacks produce delta = 0 everywhere, and the
\* adversarial evaluation of the batch equals its clean evaluation.
C5_ZeroBudget ==
    (InAttack /\ eps = 0) =>
        /\ delta = Zero
        /\ max_delta = Zero
        /\ edelta = Zero
        /\ (trace.mode = "pgd" /\ pc = "evaluated"
               => metrics = EvalMetrics(params, x, y, Zero))

\* an adversarial evaluation with eps = 0 that took gradient steps in two
\* restarts on a batch whose input gradient is not zero
C5_Witness ==
    /\ trace.mode = "pgd" /\ pc = "evaluated" /\ eps = 0
    /\ restarts = 2 /\ trace.grads >= 2
    /\ \E s \in Samples : InputGradSign(params, x, y, Zero)[s] # 0
    /\ metrics.loss > 0

\* C6: within one attack_pgd call max_loss starts at 0 and never decreases
\* from one restart to the next.
C6_RestartMonotone ==
    [][/\ (trace'.mode = "pgd" /\ Len(trace'.finals) = 0) => max_loss' = Zero
       /\ (trace.mode = "pgd" /\ trace'.mode = "pgd")
             => \A s \in Samples : max_loss'[s] >= max_loss[s]]_vars

\* the second restart raised max_loss on one sample and lost on the other
C6_Witness ==
    /\ trace.mode = "pgd" /\ Len(Finals) = 2
    /\ \E s, t \in Samples :
          /\ max_loss[s] > Finals[1].loss[s]
          /\ Finals[2].loss[t] < max_loss[t]
\* v clamped into the ball [-eps, eps], then into the pixel box of sample s
Projected(v, s) ==
    Max2(Min2(Min2(Max2(v, -eps), eps), clip_max - x[s]), clip_min - x[s])

OneStepRun == Returned /\ eps # 0 /\ attack_iters = 1 /\ restarts = 1

\* C3 as stated: with eps # 0, attack_iters = 1 and restarts = 1 the returned
\* perturbation of every sample is step * sign(input gradient at the projected
\* random start), clamped into the box.
C3_AsStated ==
    OneStepRun =>
        \A s \in Samples :
            max_delta[s] =
                Projected(eps_iter * InputGradSign(params, x, y, trace.delta0)[s], s)

\* C3 amended: with eps # 0, attack_iters = 1 and restarts = 1 the returned
\* perturbation of a sample that is classified correctly at the projected
\* random start delta0 is delta0 + step * sign(input gradient at delta0),
\* clamped into the box; the perturbation of any other sample is delta0.
C3_GradientStep ==
    OneStepRun =>
        \A s \in Samples :
            max_delta[s] =
                IF Predict(params, x[s] + trace.delta0[s]) = y[s]
                THEN Projected(trace.delta0[s]
                               + eps_iter * InputGradSign(params, x, y, trace.delta0)[s], s)
                ELSE trace.delta0[s]

\* one sample stepped away from a nonzero start, the other stayed frozen at
\* its nonzero start
C3_Witness ==
    /\ OneStepRun
    /\ \E s, t \in Samples :
          /\ Predict(params, x[s] + trace.delta0[s]) = y[s]
          /\ trace.delta0[s] # 0
          /\ max_delta[s] # trace.delta0[s]
          /\ Predict(params, x[t] + trace.delta0[t]) # y[t]
          /\ trace.delta0[t] # 0
          /\ max_delta[t] = trace.delta0[t]

\* a completed iteration of the inner loop of attack_pgd
IterStep == trace.mode = "pgd" /\ pc = "iter" /\ pc' \in {"iter", "final"}

\* C9: a PGD iteration replaces the delta of exactly the samples whose current
\* prediction equals the label by the projected gradient-sign update, and
\* leaves the delta of every other sample as it was.
C9_MaskedUpdate ==
    [][IterStep =>
        \A s \in Samples :
            delta'[s] =
                IF Predict(params, x[s] + delta[s]) = y[s]
                THEN Projected(delta[s]
                               + eps_iter * InputGradSign(params, x, y, delta)[s], s)
                ELSE delta[s]]_vars

\* the last iteration moved the one active sample and left the inactive one
\* at its nonzero value
C9_Witness ==
    /\ trace.mode = "pgd" /\ it = 2
    /\ \E s, t \in Samples :
          /\ trace.index = {s}
          /\ delta[s] # trace.before[s]
          /\ t # s /\ delta[t] = trace.before[t] /\ delta[t] # 0

\* C10: an iteration that finds no active sample ends the iteration loop of
\* its restart without a gradient computation and without touching delta; the
\* restart still evaluates its final loss and updates the worst case; every
\* restart starts from a fresh random start with its own iteration loop, and
\* all the restarts asked for are run.
C10_EarlyExit ==
    [][/\ (trace.mode = "pgd" /\ pc = "iter" /\ Correct(params, x, y, delta) = {})
             => /\ pc' = "final"
                /\ delta' = delta
                /\ trace'.grads = trace.grads
                /\ paramGrad' = paramGrad
       /\ (trace.mode = "pgd" /\ pc = "final")
             => /\ Len(trace'.finals) = i + 1
                /\ trace'.finals[i + 1].delta = delta
                /\ i' = i + 1
                /\ pc' = IF i + 1 < restarts THEN "restart" ELSE "return"
       /\ (trace.mode = "pgd" /\ pc = "restart")
             => /\ trace'.inits = i + 1
                /\ it' = 0
                /\ pc' = IF attack_iters > 0 THEN "iter" ELSE "final"
       /\ (trace'.mode = "pgd" /\ pc' = "return")
             => /\ trace'.inits = restarts'
                /\ Len(trace'.finals) = restarts']_vars

\* the first restart left its loop early, the second one ran all iterations
C10_Witness ==
    /\ Returned /\ restarts = 2 /\ attack_iters = 2 /\ Len(Finals) = 2
    /\ Finals[1].its = 0
    /\ Finals[2].its = 2
    /\ Finals[2].delta # Finals[2].start

\* C8: the buffers an optimizer step consumes hold the gradient of the
\* batch's second-pass loss and nothing else, and nothing but the optimizer
\* step changes the parameters.
C8_GradientSeparation ==
    [][/\ pc = "step" => trace'.consumed = {"loss2"}
       /\ pc # "step" => params' = params]_vars

\* an optimizer step taken after a batch that found the buffers holding an
\* earlier batch's gradient and the gradients of PGD backward passes
C8_Witness ==
    /\ trace.mode = "train" /\ pc = "trained"
    /\ trace.entry = {"earlier", "pgd"}
    /\ trace.consumed = {"loss2"}
    /\ trace.grads = 1

\* the earliest epoch with the lowest mean training loss so far
BestEpoch(L) ==
    CHOOSE e \in 1 .. Len(L) :
        /\ \A j \in 1 .. Len(L) : L[e] <= L[j]
        /\ \A j \in 1 .. (e - 1) : L[j] > L[e]

\* C7: after any number of completed epochs the snapshot holds the parameters
\* of the epoch with the lowest mean training loss so far; it is written at
\* the epochs that set a new strict minimum and at no others.
C7_CheckpointRule ==
    epoch >= 1 => snapshot = BestEpoch(epochLoss)
====
